---- MODULE Spec2Model ----
(***************************************************************************)
(* Friendship Court (src/app.py): the judgment oracle (LLM strategy with   *)
(* a length-based heuristic fallback) and the Streamlit session state      *)
(* machine that drives it.                                                 *)
(***************************************************************************)
EXTENDS Integers, Sequences, FiniteSets, TLC

(***************************************************************************)
(* Python arithmetic: int(round(n / d * 100)) on IEEE-754 doubles.         *)
(*                                                                         *)
(* n / d is the correctly rounded double q nearest n/d, q * 100 the        *)
(* correctly rounded double p nearest q*100, and round(p) rounds p to the  *)
(* nearest integer, halves to the even one.  For the magnitudes modelled   *)
(* here p differs from 100n/d by less than 2^-40, so unless 100n/d is      *)
(* exactly k + 1/2 the result is the integer nearest to 100n/d.  When      *)
(* 100n/d = k + 1/2 the two roundings decide on which side of the half p   *)
(* lands; TieSide computes that from the remainder of the division.  The   *)
(* operators are exact for |n|, |d| below 2^20.                            *)
(***************************************************************************)
Abs(n) == IF n < 0 THEN -n ELSE n

\* 2^n mod m, without forming 2^n
Pow2Mod(n, m) ==
    LET p[i \in 0 .. n] == IF i = 0 THEN 1 % m ELSE (2 * p[i - 1]) % m
    IN  p[n]

\* the binary exponent e of x/y (x, y > 0): 2^e <= x/y < 2^(e+1)
Exponent(x, y) ==
    CHOOSE e \in -20 .. 20 :
        IF e >= 0 THEN 2^e * y <= x /\ x < 2^(e + 1) * y
        ELSE y <= x * 2^(-e) /\ x * 2^(-e - 1) < y

\* x, y > 0 with 100x/y = k + 1/2.  The 53-bit significand of q = fl(x/y)
\* is x * 2^(52-e) / y rounded to an integer, e the exponent of x/y; R is
\* the remainder of that division and s/y the signed rounding error.  q*100
\* lies 100s / (y * 2^(E-e)) ulps from k + 1/2, where E is the exponent of
\* k + 1/2 and E - e is 6 or 7.  More than half an ulp away, fl(q*100) is
\* the neighbouring double and round() goes to that side (-1 below, 1
\* above); otherwise fl(q*100) = k + 1/2 exactly (0).
TieSide(x, y) ==
    LET e    == Exponent(x, y)
        wide == IF e >= 0 THEN 25 * x >= 32 * y * 2^e
                          ELSE 25 * x * 2^(-e) >= 32 * y
        R    == ((x % y) * Pow2Mod(52 - e, y)) % y
        s    == IF 2 * R > y THEN y - R ELSE -R
    IN  IF wide \/ 100 * Abs(s) <= 32 * y THEN 0
        ELSE IF s > 0 THEN 1 ELSE -1

\* int(round(x / y * 100)) for x >= 0, y > 0
RoundPos(x, y) ==
    LET k == (100 * x) \div y
        r == (100 * x) % y
    IN  IF 2 * r < y THEN k
        ELSE IF 2 * r > y THEN k + 1
        ELSE LET side == TieSide(x, y)
             IN  IF side < 0 THEN k
                 ELSE IF side > 0 THEN k + 1
                 ELSE IF k % 2 = 0 THEN k ELSE k + 1

\* a slip: int(n / d * 100), the round() left out
PyTruncPct(n, d) ==
    IF (n < 0) = (d < 0) THEN (100 * Abs(n)) \div Abs(d)
    ELSE -((100 * Abs(n)) \div Abs(d))

\* int(round(n / d * 100)) for integers n and d # 0; doubles and round()
\* are symmetric in the sign
PyRoundPct(n, d) ==
    IF (n < 0) = (d < 0) THEN RoundPos(Abs(n), Abs(d))
    ELSE -RoundPos(Abs(n), Abs(d))

(***************************************************************************)
(* Python values.  A str is a sequence of pieces: a piece is a whitespace  *)
(* character or a run of text that neither starts nor ends with            *)
(* whitespace.  A call either returns a value or raises an exception.      *)
(***************************************************************************)
None == [t |-> "NoneType"]
PyInt(n) == [t |-> "int", int |-> n]
PyBool(b) == [t |-> "bool", bool |-> b]
\* a float, as its integer part (towards zero) and whether a fraction remains
PyFloat(ip, frac) == [t |-> "float", ip |-> ip, frac |-> frac]
PyStr(s) == [t |-> "str", str |-> s]
\* a list, as its length
PyList(n) == [t |-> "list", len |-> n]
PyDict(m) == [t |-> "dict", members |-> m]

Return(v) == [ok |-> TRUE, value |-> v]
Raise(e) == [ok |-> FALSE, exc |-> e]

Whitespace == {" ", "\n", "\t"}

\* str.strip(): leading and trailing whitespace removed
RECURSIVE lstrip(_)
lstrip(s) == IF s # <<>> /\ Head(s) \in Whitespace THEN lstrip(Tail(s)) ELSE s
RECURSIVE rstrip(_)
rstrip(s) ==
    IF s # <<>> /\ s[Len(s)] \in Whitespace
    THEN rstrip(SubSeq(s, 1, Len(s) - 1)) ELSE s

\* v.strip() on a Python value: only str has the method
strip(v) ==
    IF v.t = "str" THEN Return(PyStr(rstrip(lstrip(v.str))))
    ELSE Raise("AttributeError")

\* the integer literals int(str) is modelled to read
IntLiterals == -200 .. 200

\* int(v)
int(v) ==
    CASE v.t = "int" -> Return(v.int)
      [] v.t = "bool" -> Return(IF v.bool THEN 1 ELSE 0)
      [] v.t = "float" -> Return(v.ip)
      [] v.t = "str" ->
            LET s == rstrip(lstrip(v.str))
            IN  IF Len(s) = 1 /\ \E n \in IntLiterals : ToString(n) = s[1]
                THEN Return(CHOOSE n \in IntLiterals : ToString(n) = s[1])
                ELSE Raise("ValueError")
      [] OTHER -> Raise("TypeError")

\* bool(v)
bool(v) ==
    CASE v.t = "bool" -> v.bool
      [] v.t = "int" -> v.int # 0
      [] v.t = "float" -> v.ip # 0 \/ v.frac
      [] v.t = "str" -> v.str # <<>>
      [] v.t = "list" -> v.len # 0
      [] v.t = "dict" -> DOMAIN v.members # {}
      [] OTHER -> FALSE

\* data.get(key, default): only a dict has the method
get(data, key, default) ==
    IF data.t # "dict" THEN Raise("AttributeError")
    ELSE IF key \in DOMAIN data.members THEN Return(data.members[key])
    ELSE Return(default)

(***************************************************************************)
(* The Judgment dataclass (no field is type-checked at construction).      *)
(***************************************************************************)
Judgment(summary, a_resp, b_resp, adv_a, adv_b, apology, flag, message) ==
    [neutral_summary |-> summary,
     a_responsibility |-> a_resp,
     b_responsibility |-> b_resp,
     advice_a |-> adv_a,
     advice_b |-> adv_b,
     apology_template |-> apology,
     safety_flag |-> flag,
     safety_message |-> message]

TextFields ==
    {"neutral_summary", "advice_a", "advice_b", "apology_template",
     "safety_message"}

(***************************************************************************)
(* The heuristic strategy.  The fixed texts are the source's, with its     *)
(* typographic quotes, apostrophes and ellipses written in ASCII.          *)
(***************************************************************************)
mock_neutral_summary ==
    PyStr(<<"From both perspectives, this looks like a mix of unmet expectations and communication gaps rather than one person being purely right or wrong. Both people had reasons for what they did, but those reasons weren't clearly shared.">>)

mock_advice_a ==
    PyStr(<<"Try to name what you needed earlier and out loud. Instead of waiting and hoping they guess, say something like: \"This is important to me because...\". That gives them a fair chance to respond.">>)

mock_advice_b ==
    PyStr(<<"Acknowledge the impact of your actions, even if you didn't mean harm. You can say: \"I see how that hurt you, even though I didn't intend it.\" Then share a bit of your own constraints calmly.">>)

mock_apology_template ==
    PyStr(<<"Hey, I've been thinking about what happened. I'm sorry for the part I played in how things went. I didn't mean to make you feel that way. Next time, I'll try to be more clear about what I'm thinking and I'll check in with you sooner instead of letting the tension build up.">>)

Max(a, b) == IF a >= b THEN a ELSE b
Min(a, b) == IF a <= b THEN a ELSE b

\* a slip: the total used unguarded, so two empty stories divide by zero
get_judgment_mock_unguarded(story_a, story_b, tone) ==
    LET len_a == Len(story_a)
        total == len_a + Len(story_b)
        a_share == PyRoundPct(len_a, total)
    IN  IF total = 0 THEN Raise("ZeroDivisionError")
        ELSE Return(Judgment(mock_neutral_summary, a_share, 100 - a_share,
                             mock_advice_a, mock_advice_b,
                             mock_apology_template, FALSE, PyStr(<<>>)))

get_judgment_mock(story_a, story_b, tone) ==
    LET len_a == Len(story_a)
        len_b == Len(story_b)
        total == Max(len_a + len_b, 1)
        a_share == PyRoundPct(len_a, total)
        b_share == 100 - a_share
    IN  Return(Judgment(mock_neutral_summary, a_share, b_share, mock_advice_a,
                        mock_advice_b, mock_apology_template, FALSE, PyStr(<<>>)))


(***************************************************************************)
(* The LLM strategy.  One request to the chat-completions API ends in an   *)
(* exception raised by the client, or in a message whose content is None   *)
(* or a text.  A text is held as the value json.loads gives it, NotJSON    *)
(* for a text that is no JSON document (surrounding whitespace, which the  *)
(* code strips, is not held).  api is the sequence of outcomes             *)
(* the service gives to successive requests; a request consumes one.       *)
(***************************************************************************)
ApiError(e) == [kind |-> "error", exc |-> e]
ApiMessage(content) == [kind |-> "message", content |-> content]
Text(doc) == [t |-> "text", json |-> doc]
NotJSON == [t |-> "not-json"]

\* json.loads(raw_text)
loads(raw_text) ==
    IF raw_text.json = NotJSON THEN Raise("JSONDecodeError")
    ELSE Return(raw_text.json)

DefaultResponsibility == 50

\* a slip: a missing percentage read as 0
int_get_default_zero(data, key) ==
    LET g == get(data, key, PyInt(0))
    IN  IF g.ok THEN int(g.value) ELSE g

\* int(data.get(key, 50))
int_get(data, key) ==
    LET g == get(data, key, PyInt(DefaultResponsibility))
    IN  IF g.ok THEN int(g.value) ELSE g

\* a slip: the field passed on as it came, not stripped
get_unstripped(data, key) == get(data, key, PyStr(<<>>))

\* data.get(key, "").strip()
strip_get(data, key) ==
    LET g == get(data, key, PyStr(<<>>))
    IN  IF g.ok THEN strip(g.value) ELSE g

\* a slip: the percentages passed on as the model gave them
normalize_skipped(a, b) == <<a, b>>

\* lines 161-164: normalize to sum to 100
normalize(a, b) ==
    LET total == IF a + b # 0 THEN a + b ELSE 1
        a_resp == PyRoundPct(a, total)
        b_resp == 100 - a_resp
    IN  <<a_resp, b_resp>>

\* lines 156-175, on the parsed data; the first failing step raises
judgment_from(data) ==
    LET a == int_get(data, "a_responsibility")
        b == int_get(data, "b_responsibility")
        n == normalize(a.value, b.value)
        neutral_summary == strip_get(data, "neutral_summary")
        advice_a == strip_get(data, "advice_a")
        advice_b == strip_get(data, "advice_b")
        apology_template == strip_get(data, "apology_template")
        safety_flag == get(data, "safety_flag", PyBool(FALSE))
        safety_message == strip_get(data, "safety_message")
    IN  IF ~a.ok THEN a
        ELSE IF ~b.ok THEN b
        ELSE IF ~neutral_summary.ok THEN neutral_summary
        ELSE IF ~advice_a.ok THEN advice_a
        ELSE IF ~advice_b.ok THEN advice_b
        ELSE IF ~apology_template.ok THEN apology_template
        ELSE IF ~safety_flag.ok THEN safety_flag
        ELSE IF ~safety_message.ok THEN safety_message
        ELSE Return(Judgment(neutral_summary.value, n[1], n[2],
                             advice_a.value, advice_b.value,
                             apology_template.value, bool(safety_flag.value),
                             safety_message.value))

\* story_a, story_b and tone only enter the prompt; ret is what the call
\* returns or raises, api what is left of the service's outcomes
get_judgment_llm(story_a, story_b, tone, api) ==
    LET resp == Head(api)
        ret ==
            IF resp.kind = "error" THEN Raise(resp.exc)
            ELSE IF resp.content = None THEN Raise("AttributeError")
            ELSE LET data == loads(resp.content)
                 IN  IF data.ok THEN judgment_from(data.value) ELSE data
    IN  [ret |-> ret, api |-> Tail(api)]

\* a slip: the LLM asked a second time before falling back
get_judgment_retrying(story_a, story_b, tone, api) ==
    LET llm == get_judgment_llm(story_a, story_b, tone, api)
        again == get_judgment_llm(story_a, story_b, tone, llm.api)
    IN  IF llm.ret.ok THEN llm
        ELSE IF again.ret.ok THEN again
        ELSE [ret |-> get_judgment_mock(story_a, story_b, tone), api |-> again.api]

\* try the LLM, on any exception fall back to the heuristic
get_judgment(story_a, story_b, tone, api) ==
    LET llm == get_judgment_llm(story_a, story_b, tone, api)
    IN  IF llm.ret.ok THEN llm
        ELSE [ret |-> get_judgment_mock(story_a, story_b, tone), api |-> llm.api]

(***************************************************************************)
(* Inputs: the stories and tones a user can submit, and the outcomes the   *)
(* service can give.                                                       *)
(***************************************************************************)
MaxLen == 2

RECURSIVE Story(_)
Story(n) == IF n = 0 THEN "" ELSE "x" \o Story(n - 1)

\* every length up to MaxLen, and the lengths of the documented examples
StoryLengths == (0 .. MaxLen) \cup {30, 40, 49, 70}
Stories == {Story(n) : n \in StoryLengths}
Tones == {"Gentle", "Neutral", "Direct"}

\* a key the response does not carry
Absent == [t |-> "absent"]

Object(fields) ==
    PyDict([k \in {f \in DOMAIN fields : fields[f] # Absent} |-> fields[k]])

BaseFields ==
    [neutral_summary |-> PyStr(<<"Plans changed and nobody said so.">>),
     a_responsibility |-> PyInt(60),
     b_responsibility |-> PyInt(40),
     advice_a |-> PyStr(<<"Ask before assuming.">>),
     advice_b |-> PyStr(<<"Send a message when you are late.">>),
     apology_template |-> PyStr(<<"I am sorry I left you waiting.">>),
     safety_flag |-> PyBool(FALSE),
     safety_message |-> PyStr(<<>>)]

Responsibilities == {"a_responsibility", "b_responsibility"}
ResponsibilityInts == {-50, -2, 0, 2, 17, 23, 40, 150}
\* a percentage as an integer or left out, and as a value of another type
ResponsibilityValues == {PyInt(n) : n \in ResponsibilityInts} \cup {Absent}
OddResponsibilityValues ==
    {None, PyStr(<<" ", "40">>), PyStr(<<"forty">>), PyFloat(33, TRUE),
     PyBool(TRUE)}
TextValues ==
    {Absent, None, PyInt(7), PyList(0), PyStr(<<>>), PyStr(<<" ", "\n">>),
     PyStr(<<"\n", " ", "Say sorry first.", " ", "\t">>)}
FlagValues ==
    {Absent, None, PyBool(TRUE), PyInt(0), PyStr(<<"yes">>), PyList(0)}

Objects ==
    {Object([BaseFields EXCEPT !.a_responsibility = a, !.b_responsibility = b]) :
        a \in ResponsibilityValues, b \in ResponsibilityValues}
    \cup {Object([f \in DOMAIN BaseFields |->
                        IF f = k THEN v
                        ELSE IF f \in Responsibilities THEN other
                        ELSE BaseFields[f]]) :
            k \in Responsibilities, v \in OddResponsibilityValues,
            other \in {PyInt(40), Absent}}
    \cup {Object([BaseFields EXCEPT ![k] = v]) : k \in TextFields, v \in TextValues}
    \cup {Object([BaseFields EXCEPT !.safety_flag = v,
                                    !.safety_message = PyStr(<<"Please reach out to someone you trust.">>)]) :
            v \in FlagValues}
    \cup {PyDict(<<>>)}

Documents == Objects \cup {NotJSON, None, PyList(2), PyStr(<<"sorry">>), PyInt(5)}

ApiErrors == {"APIConnectionError", "RateLimitError"}

\* what the service may answer to a request made with the given credential
Outcomes(key) ==
    IF key = "invalid" THEN {ApiError("AuthenticationError")}
    ELSE {ApiError(e) : e \in ApiErrors}
         \cup {ApiMessage(None)}
         \cup {ApiMessage(Text(d)) : d \in Documents}

\* what it may answer to a further request
LaterOutcomes(key) ==
    IF key = "invalid" THEN {ApiError("AuthenticationError")}
    ELSE {ApiError("APIConnectionError"), ApiMessage(Text(Object(BaseFields)))}

(***************************************************************************)
(* The Streamlit session.  Every user event runs the script from the top:  *)
(* a button's on_click callback first, then the script.  st.rerun() ends   *)
(* the run and starts the next at once, before any user event.             *)
(*                                                                         *)
(*   api_key        OPENAI_API_KEY in the process environment              *)
(*   session_state  st.session_state, a dict                               *)
(*   page           what the last run left on the screen                   *)
(*   rerun          st.rerun() was called and the next run has not begun   *)
(*   calls          get_judgment calls since the last accepted submission  *)
(*   requests       API requests made by the last get_judgment call        *)
(*   response       the service's outcome for the first of those requests  *)
(***************************************************************************)
VARIABLES api_key, session_state, page, rerun, calls, requests, response

vars == <<api_key, session_state, page, rerun, calls, requests, response>>

NoResponse == [kind |-> "none"]

\* dict helpers
Has(d, key) == key \in DOMAIN d
Set(d, key, v) == [k \in DOMAIN d \cup {key} |-> IF k = key THEN v ELSE d[k]]
Pop(d, key) == [k \in DOMAIN d \ {key} |-> d[k]]
GetOr(d, key, default) == IF Has(d, key) THEN d[key] ELSE default

\* client = OpenAI(): the constructor raises OpenAIError when no api_key is
\* passed and OPENAI_API_KEY is not set
OpenAI(key) == IF key = "absent" THEN Raise("OpenAIError") ELSE Return(key)

\* lines 218-228: defaults for the keys the session does not have yet
init_session(s) ==
    LET s1 == IF Has(s, "phase") THEN s ELSE Set(s, "phase", "input")
        s2 == IF Has(s1, "step") THEN s1 ELSE Set(s1, "step", 0)
    IN  IF Has(s2, "judgment") THEN s2 ELSE Set(s2, "judgment", None)

\* a slip: the step advanced without the cap at 3
next_step_uncapped(s) == [s EXCEPT !.step = s.step + 1]

next_step(s) == [s EXCEPT !.step = Min(3, s.step + 1)]

prev_step(s) == [s EXCEPT !.step = Max(1, s.step - 1)]

reset_case(s) ==
    Pop(Pop(Pop([s EXCEPT !.phase = "input", !.step = 0, !.judgment = None],
                "pending_story_a"), "pending_story_b"), "pending_tone")

\* lines 422 and 467: what a run outside the thinking phase puts on the page
render(s) ==
    IF s.step = 0 THEN "form"
    ELSE IF s.step >= 1 /\ s.judgment # None THEN "results"
    ELSE "header"

\* a slip: only the first story checked
submit_checks_a_only(s, story_a, story_b, tone) ==
    IF story_a = ""
    THEN [session |-> s, warning |-> TRUE, rerun |-> FALSE]
    ELSE [session |->
            [Set(Set(Set(s, "pending_story_a", story_a),
                     "pending_story_b", story_b),
                 "pending_tone", tone) EXCEPT !.phase = "thinking"],
          warning |-> FALSE, rerun |-> TRUE]

\* lines 451-462, submit pressed with the form's values: the session it
\* leaves, whether the warning is shown and whether st.rerun() is called
submit(s, story_a, story_b, tone) ==
    IF story_a = "" \/ story_b = ""
    THEN [session |-> s, warning |-> TRUE, rerun |-> FALSE]
    ELSE [session |->
            [Set(Set(Set(s, "pending_story_a", story_a),
                     "pending_story_b", story_b),
                 "pending_tone", tone) EXCEPT !.phase = "thinking"],
          warning |-> FALSE, rerun |-> TRUE]

\* a slip: the phase left at "thinking"
thinking_keeps_phase(s, judgment) ==
    [Set(s, "judgment", judgment) EXCEPT !.step = 1]

\* lines 286-304, given what get_judgment returned
thinking(s, judgment) ==
    [Set(s, "judgment", judgment) EXCEPT !.phase = "results", !.step = 1]

Init ==
    /\ api_key \in {"absent", "invalid", "valid"}
    /\ session_state = <<>>
    /\ page = "none"
    /\ rerun = FALSE
    /\ calls = 0
    /\ requests = 0
    /\ response = NoResponse

\* a run that fails at line 18 leaves the exception on the page
Crash ==
    /\ page' = "error"
    /\ rerun' = FALSE
    /\ UNCHANGED <<api_key, session_state, calls, requests, response>>

\* the first run of a new session
Load ==
    /\ page = "none"
    /\ IF ~OpenAI(api_key).ok THEN Crash
       ELSE /\ session_state' = init_session(session_state)
            /\ page' = render(session_state')
            /\ UNCHANGED <<api_key, rerun, calls, requests, response>>

\* "Ask the Judge" pressed: the form is on the page only when step == 0
Submit ==
    /\ ~rerun
    /\ page \in {"form", "warning"}
    /\ \E story_a \in Stories, story_b \in Stories, tone \in Tones :
        IF ~OpenAI(api_key).ok THEN Crash
        ELSE LET done == submit(init_session(session_state), story_a, story_b, tone)
             IN  /\ session_state' = done.session
                 /\ page' = IF done.warning THEN "warning" ELSE "form"
                 /\ rerun' = done.rerun
                 /\ calls' = IF done.rerun THEN 0 ELSE calls
                 /\ requests' = IF done.rerun THEN 0 ELSE requests
                 /\ response' = IF done.rerun THEN NoResponse ELSE response
                 /\ UNCHANGED api_key

\* the run in the thinking phase (lines 250-306)
ThinkingRun ==
    /\ rerun
    /\ IF ~OpenAI(api_key).ok THEN Crash
       ELSE LET s == init_session(session_state)
            IN  /\ s.phase = "thinking"
                /\ \E first \in Outcomes(api_key), later \in LaterOutcomes(api_key) :
                    LET api == <<first, later>>
                        story_a == GetOr(s, "pending_story_a", "")
                        story_b == GetOr(s, "pending_story_b", "")
                        tone == GetOr(s, "pending_tone", "Gentle")
                        got == get_judgment(story_a, story_b, tone, api)
                    IN  /\ calls' = calls + 1
                        /\ requests' = Len(api) - Len(got.api)
                        /\ response' = first
                        /\ IF got.ret.ok
                           THEN /\ session_state' = thinking(s, got.ret.value)
                                /\ page' = "video"
                                /\ rerun' = TRUE
                           ELSE /\ session_state' = s
                                /\ page' = "error"
                                /\ rerun' = FALSE
                        /\ UNCHANGED api_key

\* the run st.rerun() starts outside the thinking phase
RenderRun ==
    /\ rerun
    /\ IF ~OpenAI(api_key).ok THEN Crash
       ELSE LET s == init_session(session_state)
            IN  /\ s.phase # "thinking"
                /\ session_state' = s
                /\ page' = render(s)
                /\ rerun' = FALSE
                /\ UNCHANGED <<api_key, calls, requests, response>>

\* a button of the results pages pressed: its on_click callback has left
\* the session s, then the script runs
Click(s) ==
    IF ~OpenAI(api_key).ok
    THEN /\ session_state' = s
         /\ page' = "error"
         /\ UNCHANGED <<api_key, rerun, calls, requests, response>>
    ELSE /\ session_state' = init_session(s)
         /\ page' = render(session_state')
         /\ UNCHANGED <<api_key, rerun, calls, requests, response>>

\* "Next" is on the page at steps 1 and 2
NextStep ==
    /\ ~rerun
    /\ page = "results"
    /\ session_state.step \in {1, 2}
    /\ Click(next_step(session_state))

\* "Back" is on the page at steps 2 and 3
PrevStep ==
    /\ ~rerun
    /\ page = "results"
    /\ session_state.step \in {2, 3}
    /\ Click(prev_step(session_state))

\* "Start a new case" is on every results page
ResetCase ==
    /\ ~rerun
    /\ page = "results"
    /\ Click(reset_case(session_state))

Next ==
    \/ Load
    \/ Submit
    \/ ThinkingRun
    \/ RenderRun
    \/ NextStep
    \/ PrevStep
    \/ ResetCase

Spec == Init /\ [][Next]_vars
(***************************************************************************)
(* The heuristic strategy on its own: get_judgment_mock called on any two  *)
(* texts, empty ones included, and any tone.  The arguments are held under *)
(* the pending_* keys and the Judgment it returns under "judgment".        *)
(***************************************************************************)
InitMock ==
    /\ api_key = "absent"
    /\ session_state \in
        {[pending_story_a |-> story_a, pending_story_b |-> story_b,
          pending_tone |-> tone, judgment |-> None] :
            story_a \in Stories, story_b \in Stories, tone \in Tones}
    /\ page = "none"
    /\ rerun = FALSE
    /\ calls = 0
    /\ requests = 0
    /\ response = NoResponse

CallMock ==
    /\ calls = 0
    /\ LET got == get_judgment_mock(session_state.pending_story_a,
                                    session_state.pending_story_b,
                                    session_state.pending_tone)
       IN  IF got.ok
           THEN /\ session_state' = [session_state EXCEPT !.judgment = got.value]
                /\ page' = page
           ELSE /\ session_state' = session_state
                /\ page' = "error"
    /\ calls' = calls + 1
    /\ UNCHANGED <<api_key, rerun, requests, response>>

SpecMock == InitMock /\ [][CallMock]_vars

(***************************************************************************)
(* Properties.                                                             *)
(***************************************************************************)
Phase == GetOr(session_state, "phase", "none")
TheJudgment == GetOr(session_state, "judgment", None)
HasJudgment == TheJudgment # None
StoryA == session_state.pending_story_a
StoryB == session_state.pending_story_b
Tone == session_state.pending_tone

\* get_judgment has returned for the case on the results pages
Returned == Phase = "results" /\ calls = 1

\* what each strategy gives for the case's inputs and the service's outcome
LlmRet == get_judgment_llm(StoryA, StoryB, Tone, <<response>>).ret
MockRet == get_judgment_mock(StoryA, StoryB, Tone)

\* the outcome is a message carrying a JSON object
IsObject(r) ==
    r.kind = "message" /\ r.content # None /\ r.content.json.t = "dict"
Members == response.content.json.members

\* the failures the LLM strategy can meet: no answer, no content, no JSON,
\* no object, a text field that is no string, a percentage that is null or
\* a container
ListedFailure(r) ==
    \/ r.kind = "error"
    \/ r.content = None
    \/ r.content.json = NotJSON
    \/ r.content.json.t # "dict"
    \/ \E k \in TextFields \cap DOMAIN r.content.json.members :
            r.content.json.members[k].t # "str"
    \/ \E k \in {"a_responsibility", "b_responsibility"}
                    \cap DOMAIN r.content.json.members :
            r.content.json.members[k].t \in {"NoneType", "list", "dict"}

\* C1: get_judgment never raises, makes exactly one request to the LLM, and
\* returns the LLM strategy's Judgment when that strategy returns one and
\* the heuristic's Judgment for the same inputs when it fails (on an API
\* error, a body that is no JSON object, a null or wrong-typed field).
C1_EvaluateIsTotal ==
    /\ calls >= 1 => page # "error" /\ requests = 1
    /\ Returned =>
        /\ TheJudgment = IF LlmRet.ok THEN LlmRet.value ELSE MockRet.value
        /\ ListedFailure(response) => ~LlmRet.ok /\ TheJudgment = MockRet.value

C1_Witness ==
    /\ Returned
    /\ IsObject(response)
    /\ "advice_a" \in DOMAIN Members
    /\ Members.advice_a = None
    /\ TheJudgment = MockRet.value

\* C2: every Judgment held by the session, from the LLM or from the
\* heuristic, has a_responsibility + b_responsibility = 100.
C2_SumIs100 ==
    HasJudgment =>
        TheJudgment.a_responsibility + TheJudgment.b_responsibility = 100

C2_Witness ==
    /\ Returned
    /\ LlmRet.ok
    /\ {"a_responsibility", "b_responsibility"} \subseteq DOMAIN Members
    /\ Members.a_responsibility = PyInt(0)
    /\ Members.b_responsibility = PyInt(0)
    /\ TheJudgment.a_responsibility + TheJudgment.b_responsibility = 100

\* C3: in every Judgment held by the session both a_responsibility and
\* b_responsibility lie in 0..100.
C3_InRange ==
    HasJudgment =>
        /\ TheJudgment.a_responsibility \in 0 .. 100
        /\ TheJudgment.b_responsibility \in 0 .. 100

\* C4: with the credential absent or invalid no run ends in an error, and
\* the case that reaches the results pages shows the heuristic Judgment.
C4_NoCredentialFallsBack ==
    api_key # "valid" =>
        /\ page # "error"
        /\ Returned => TheJudgment = MockRet.value

\* the heuristic has been called and has returned
MockCalled == calls = 1 /\ HasJudgment

\* C5: the heuristic never fails; its a_responsibility is
\* len(story_a) / max(len(story_a) + len(story_b), 1) * 100 rounded to a
\* nearest integer and its b_responsibility is 100 - a_responsibility; the
\* result is the same for every tone; lengths 30 and 70 give 30/70 and
\* lengths 49 and 40 give 55/45.
C5_HeuristicSplit ==
    /\ page # "error"
    /\ calls = 1 =>
        LET len_a == Len(StoryA)
            len_b == Len(StoryB)
            total == IF len_a + len_b >= 1 THEN len_a + len_b ELSE 1
            a == TheJudgment.a_responsibility
            b == TheJudgment.b_responsibility
        IN  /\ HasJudgment
            /\ 2 * Abs(100 * len_a - a * total) <= total
            /\ b = 100 - a
            /\ \A t \in Tones :
                    get_judgment_mock(StoryA, StoryB, t) = Return(TheJudgment)
            /\ len_a = 30 /\ len_b = 70 => a = 30 /\ b = 70
            /\ len_a = 49 /\ len_b = 40 => a = 55 /\ b = 45

C5_Witness ==
    /\ MockCalled
    /\ Len(StoryA) = 49
    /\ Len(StoryB) = 40
    /\ Tone = "Direct"
    /\ TheJudgment.a_responsibility = 55

\* the parsed value of a percentage the response carries as an integer, or
\* the default when the key is missing
Carried(key) ==
    IF key \in DOMAIN Members THEN Members[key].int ELSE DefaultResponsibility
IsIntOrMissing(key) == key \in DOMAIN Members => Members[key].t = "int"

\* C6: when the LLM strategy returns from a response whose percentages a
\* and b are integers (50 for a missing key), a_responsibility is
\* a / total * 100 rounded to a nearest integer, total being a + b or 1
\* when a + b is 0, and b_responsibility is 100 - a_responsibility; 40 and
\* 40 give 50 and 50.
C6_Normalised ==
    (/\ Returned
     /\ LlmRet.ok
     /\ IsIntOrMissing("a_responsibility")
     /\ IsIntOrMissing("b_responsibility")) =>
        LET a == Carried("a_responsibility")
            b == Carried("b_responsibility")
            total == IF a + b = 0 THEN 1 ELSE a + b
            a1 == TheJudgment.a_responsibility
            b1 == TheJudgment.b_responsibility
        IN  /\ 2 * Abs(100 * a - a1 * total) <= Abs(total)
            /\ b1 = 100 - a1
            /\ a = 40 /\ b = 40 => a1 = 50 /\ b1 = 50

C6_Witness ==
    /\ Returned
    /\ LlmRet.ok
    /\ "a_responsibility" \notin DOMAIN Members
    /\ "b_responsibility" \in DOMAIN Members
    /\ Members.b_responsibility = PyInt(40)
    /\ TheJudgment.a_responsibility = 56
    /\ TheJudgment.b_responsibility = 44

\* C7 as claimed: for two empty stories the heuristic returns 50/50.
C7_EmptyIsHalf ==
    (MockCalled /\ StoryA = "" /\ StoryB = "") =>
        /\ TheJudgment.a_responsibility = 50
        /\ TheJudgment.b_responsibility = 50

\* C7: for two empty stories the heuristic raises nothing and returns the
\* split 0/100, which sums to 100: the guard makes the total 1 and the
\* share of story_a is 0 / 1.
C7_EmptyIsZeroHundred ==
    /\ page # "error"
    /\ (calls = 1 /\ StoryA = "" /\ StoryB = "") =>
        /\ HasJudgment
        /\ TheJudgment.a_responsibility = 0
        /\ TheJudgment.b_responsibility = 100

C7_Witness ==
    /\ MockCalled
    /\ StoryA = ""
    /\ StoryB = ""
    /\ TheJudgment.b_responsibility = 100

\* C8: every text field of a Judgment held by the session is a string; a
\* key the LLM's response does not carry gives the empty string.
C8_TextFieldsAreStrings ==
    HasJudgment =>
        \A f \in TextFields :
            /\ TheJudgment[f].t = "str"
            /\ (Returned /\ LlmRet.ok /\ f \notin DOMAIN Members) =>
                    TheJudgment[f] = PyStr(<<>>)

C8_Witness ==
    /\ Returned
    /\ LlmRet.ok
    /\ "advice_a" \notin DOMAIN Members
    /\ TheJudgment.advice_a = PyStr(<<>>)
    /\ TheJudgment.advice_b # PyStr(<<>>)

\* the stories get_judgment is, or was, called with are not empty
C9_NeverEmpty ==
    (Phase = "thinking" \/ Returned) =>
        /\ Has(session_state, "pending_story_a")
        /\ Has(session_state, "pending_story_b")
        /\ StoryA # ""
        /\ StoryB # ""

\* a submission answered with the warning changes nothing in the session
C9_RejectedStep ==
    page' = "warning" =>
        /\ session_state' = session_state
        /\ Phase = "input"
        /\ ~rerun'
        /\ UNCHANGED <<calls, requests, response>>

\* C9: get_judgment is only called with two non-empty stories, and a
\* submission with an empty text leaves phase, step, judgment and the
\* pending inputs as they were, in the input phase, with only the warning
\* shown.
C9_EmptyNeverReachesOracle == []C9_NeverEmpty /\ [][C9_RejectedStep]_vars

C9_Witness ==
    /\ page = "warning"
    /\ Phase = "input"
    /\ calls = 1
    /\ ~Has(session_state, "pending_story_a")

\* get_judgment is called once in the thinking phase and not again
C10_OnceCalled ==
    /\ calls \in {0, 1}
    /\ Phase = "thinking" => calls = 0 /\ ~HasJudgment
    /\ Phase = "results" => calls = 1 /\ HasJudgment

\* the judgment changes only when the thinking phase stores the one it got
\* or when reset_case discards it with the pending inputs; the calls are
\* counted from the accepted submission
C10_Step ==
    /\ calls' # calls =>
        \/ Phase = "thinking" /\ calls' = calls + 1 /\ Phase' = "results"
        \/ Phase = "input" /\ Phase' = "thinking" /\ calls' = 0
    /\ TheJudgment' # TheJudgment =>
        \/ Phase = "thinking" /\ calls' = calls + 1 /\ HasJudgment'
        \/ /\ Phase = "results"
           /\ Phase' = "input"
           /\ ~HasJudgment'
           /\ session_state'.step = 0
           /\ ~Has(session_state', "pending_story_a")
           /\ ~Has(session_state', "pending_story_b")
           /\ ~Has(session_state', "pending_tone")
    /\ (Phase = "results" /\ Phase' = "results") => TheJudgment' = TheJudgment

\* C10: the Judgment is made by one get_judgment call per accepted
\* submission, next_step and prev_step leave it as it is, and reset_case
\* sets it to None and drops the pending inputs.
C10_JudgmentOncePerCase == []C10_OnceCalled /\ [][C10_Step]_vars

C10_Witness ==
    /\ Phase = "input"
    /\ page = "form"
    /\ calls = 1
    /\ ~HasJudgment
    /\ ~Has(session_state, "pending_tone")

\* a run has put the form or the results on the page and no rerun is pending
Rendered == ~rerun /\ page \in {"form", "warning", "results"}

\* the phase fixes the step and whether a judgment is held; the page shown
\* is the form in the input phase and the results in the results phase; on
\* the results pages neither button's callback can take the step out of
\* 1..3: next_step stays at 3 and prev_step stays at 1
C11_PhaseInv ==
    /\ Phase = "input" => session_state.step = 0 /\ ~HasJudgment
    /\ Phase = "results" => session_state.step \in 1 .. 3 /\ HasJudgment
    /\ Rendered =>
        /\ Phase \in {"input", "results"}
        /\ page = "results" <=> Phase = "results"
    /\ page # "header"
    /\ Phase = "results" =>
        /\ next_step(session_state).step \in 1 .. 3
        /\ prev_step(session_state).step \in 1 .. 3
        /\ next_step(session_state).phase = "results"
        /\ prev_step(session_state).phase = "results"
        /\ session_state.step = 3 => next_step(session_state) = session_state
        /\ session_state.step = 1 => prev_step(session_state) = session_state

\* the phases follow input -> thinking -> results -> input, the last only
\* with the step back at 0; inside the results phase the step moves by one
\* and stays in 1..3
C11_PhaseStep ==
    /\ Phase' # Phase =>
        \/ Phase = "none" /\ Phase' = "input"
        \/ Phase = "input" /\ Phase' = "thinking"
        \/ Phase = "thinking" /\ Phase' = "results" /\ session_state'.step = 1
        \/ Phase = "results" /\ Phase' = "input" /\ session_state'.step = 0
    /\ (Phase = "results" /\ Phase' = "results") =>
        /\ session_state'.step \in 1 .. 3
        /\ Abs(session_state'.step - session_state.step) <= 1
    /\ (Phase = "thinking" /\ Phase' = "thinking") =>
        session_state' = session_state

\* C11: whenever a page is rendered, phase "input" goes with step 0 and no
\* judgment, and phase "results" with a step in 1..3 and a judgment; the
\* phases are entered in the order input, thinking, results and, by
\* reset_case, input again; next_step stops at 3 and prev_step at 1, so the
\* buttons never lead to step 0 or out of the results phase.
C11_PhaseStepMachine == []C11_PhaseInv /\ [][C11_PhaseStep]_vars

C11_Witness ==
    /\ Rendered
    /\ Phase = "results"
    /\ page = "results"
    /\ session_state.step = 3
    /\ HasJudgment
====
